---- MODULE Spec2Model ----
(***************************************************************************)
(* Component-catalog pipeline of the dashboard:                            *)
(*   scripts/generate-data (generateData)  scan -> parse -> serialize      *)
(*   server/api/components.get.ts          list                            *)
(*   server/api/component/[...path].get.ts detail                          *)
(*   server/api/component/[...path].put.ts edit                            *)
(*   app/pages/index.vue                   the client that calls them      *)
(*                                                                         *)
(* A JavaScript string is modelled as a sequence of atoms (Str).  An atom  *)
(* is a TLA+ string standing for one character or for one indivisible run  *)
(* of characters ("agents", ".md", "Purpose").  Concatenation is \o, so    *)
(* template strings, replace(), endsWith() and the regular expression are  *)
(* computed on the sequences, as the code computes them on characters.     *)
(***************************************************************************)
EXTENDS Integers, Sequences, FiniteSets, Bags, TLC

VARIABLES
  fs,        \* the filesystem: absolute path -> node
  artifact,  \* app/data/components.json as written by generateData
  catalog,   \* componentsData: the artifact as imported by the server bundle
  pending,   \* PUT requests past validation, awaiting writeFile
  resp,      \* the response of the most recently completed request
  build,     \* outcome of the most recent generateData run (log stream, count)
  hist,      \* history: the last successful save, the one it replaced, what followed
  nSaves,    \* PUT requests accepted so far
  nBuilds,   \* generateData runs so far
  client     \* the page: its refs, its toasts and its requests in flight

vars == <<fs, artifact, catalog, pending, resp, build, hist, nSaves, nBuilds, client>>

----------------------------------------------------------------------------
(* Bounds *)

\* PUT requests accepted in one behaviour
MaxSaves == 2
\* generateData runs in one behaviour
MaxBuilds == 1
\* entries of one directory listing / of the mcpServers map in an initial tree
MaxList == 2
\* selectComponent calls in one behaviour
MaxSelects == 2

----------------------------------------------------------------------------
(* Strings *)

NL == "\n"
SP == " "

Lower(c) ==
  CASE c = "A" -> "a"
    [] c = "B" -> "b"
    [] c = "Purpose" -> "purpose"
    [] c = "PURPOSE" -> "purpose"
    [] c = "Description" -> "description"
    [] OTHER -> c

\* String.prototype.toUpperCase on a one-character string
toUpperCase(c) ==
  CASE c = "a" -> "A"
    [] c = "b" -> "B"
    [] c = "c" -> "C"
    [] c = "e" -> "E"
    [] c = "j" -> "J"
    [] c = "k" -> "K"
    [] c = "n" -> "N"
    [] c = "o" -> "O"
    [] c = "s" -> "S"
    [] c = "t" -> "T"
    [] c = "u" -> "U"
    [] c = "x" -> "X"
    [] c = "y" -> "Y"
    [] OTHER -> c

\* s.endsWith(suf)
endsWith(s, suf) ==
  /\ Len(s) >= Len(suf)
  /\ SubSeq(s, Len(s) - Len(suf) + 1, Len(s)) = suf

\* s.replace(pat, rep) with a string pattern: the FIRST occurrence only
replace(s, pat, rep) ==
  LET hits == {i \in 1..(Len(s) - Len(pat) + 1) : SubSeq(s, i, i + Len(pat) - 1) = pat}
  IN IF hits = {} THEN s
     ELSE LET i == CHOOSE h \in hits : \A g \in hits : h <= g
          IN SubSeq(s, 1, i - 1) \o rep \o SubSeq(s, i + Len(pat), Len(s))

\* s.replace(/-/g, ' ')
replaceHyphens(s) ==
  [i \in 1..Len(s) |-> IF s[i] = "-" THEN SP ELSE s[i]]

\* name.charAt(0).toUpperCase() + name.slice(1)
capitalize(s) ==
  [i \in 1..Len(s) |-> IF i = 1 THEN toUpperCase(s[i]) ELSE s[i]]

\* s.split(' ').map(w => w.charAt(0).toUpperCase() + w.slice(1)).join(' ')
capitalizeWords(s) ==
  [i \in 1..Len(s) |-> IF i = 1 \/ s[i - 1] = SP THEN toUpperCase(s[i]) ELSE s[i]]

----------------------------------------------------------------------------
(* Description extraction:                                                 *)
(*   content.match(/##\s*(?:Purpose|Description)[:\s]*([^\n]+)/i)          *)

IsWs(c) == c \in {SP, NL}

IsKeyword(c) == Lower(c) \in {"purpose", "description"}

\* first index >= i whose atom fails P-membership, or Len(t)+1
RECURSIVE SkipWhile(_, _, _)
SkipWhile(t, i, set) ==
  IF i <= Len(t) /\ t[i] \in set THEN SkipWhile(t, i + 1, set) ELSE i

\* [^\n]+ from index c: the end (exclusive) of the run of non-newline atoms
RECURSIVE LineEnd(_, _)
LineEnd(t, c) ==
  IF c <= Len(t) /\ t[c] # NL THEN LineEnd(t, c + 1) ELSE c

\* The capture group of a match beginning at index i, or <<>> when the
\* pattern does not match there.  \s* and [:\s]* are greedy and backtrack:
\* [:\s]* gives atoms back until [^\n]+ finds an atom that is not a newline.
MatchAt(t, i) ==
  IF ~(i + 1 <= Len(t) /\ t[i] = "#" /\ t[i + 1] = "#") THEN <<>>
  ELSE LET j == SkipWhile(t, i + 2, {SP, NL})
       IN IF ~(j <= Len(t) /\ IsKeyword(t[j])) THEN <<>>
          ELSE LET m == SkipWhile(t, j + 1, {":", SP, NL})
                   starts == {c \in (j + 1)..m : c <= Len(t) /\ t[c] # NL}
               IN IF starts = {} THEN <<>>
                  ELSE LET c == CHOOSE x \in starts : \A y \in starts : y <= x
                       IN SubSeq(t, c, LineEnd(t, c) - 1)

\* descMatch?.[1] : the capture of the leftmost match, <<>> when none
descMatch(t) ==
  LET hits == {i \in 1..Len(t) : MatchAt(t, i) # <<>>}
  IN IF hits = {} THEN <<>>
     ELSE MatchAt(t, CHOOSE h \in hits : \A g \in hits : h <= g)

\* faulty variant: descMatch?.[1] ?? '' : no default for a text without a match
descriptionNoDefault(t, fallback) == descMatch(t)

\* descMatch?.[1] || fallback
description(t, fallback) ==
  LET m == descMatch(t)
  IN IF m = <<>> THEN fallback ELSE m

----------------------------------------------------------------------------
(* JSON: JSON.stringify(value, null, 2) and JSON.parse                     *)

\* A JSON value.  t is "null", "str" or "obj"; s the characters of a string;
\* kv the members of an object in insertion order.
JNull == [t |-> "null", s |-> <<>>, kv |-> <<>>]
JStr(s) == [t |-> "str", s |-> s, kv |-> <<>>]
JObj(kv) == [t |-> "obj", s |-> <<>>, kv |-> kv]
Member(k, v) == [k |-> k, v |-> v]

\* value[key] where value came from JSON.parse: `undefined` is reported by
\* has = FALSE.  Property access on null throws a TypeError (throws = TRUE).
Get(value, key) ==
  LET hits == {i \in 1..Len(value.kv) : value.kv[i].k = key}
  IN [throws |-> value.t = "null",
      has    |-> value.t = "obj" /\ hits # {},
      \* duplicate keys cannot arise: JSON.parse keeps the last, one member
      value  |-> IF value.t = "obj" /\ hits # {}
                 THEN value.kv[CHOOSE h \in hits : TRUE].v ELSE JNull]

\* JavaScript truthiness of a looked-up property
Truthy(g) ==
  /\ g.has
  /\ g.value.t # "null"
  /\ ~(g.value.t = "str" /\ g.value.s = <<>>)

RECURSIVE Indent(_)
Indent(depth) == IF depth = 0 THEN <<>> ELSE <<SP, SP>> \o Indent(depth - 1)

RECURSIVE stringify(_, _)
RECURSIVE stringifyMembers(_, _, _)
stringifyMembers(kv, i, depth) ==
  IF i > Len(kv) THEN <<>>
  ELSE Indent(depth) \o <<"\"">> \o kv[i].k \o <<"\"", ":", SP>>
       \o stringify(kv[i].v, depth)
       \o (IF i < Len(kv) THEN <<",">> ELSE <<>>) \o <<NL>>
       \o stringifyMembers(kv, i + 1, depth)

\* JSON.stringify(v, null, 2) at nesting depth `depth`
stringify(v, depth) ==
  CASE v.t = "null" -> <<"null">>
    [] v.t = "str" -> <<"\"">> \o v.s \o <<"\"">>
    [] OTHER ->
         IF v.kv = <<>> THEN <<"{", "}">>
         ELSE <<"{", NL>> \o stringifyMembers(v.kv, 1, depth + 1)
              \o Indent(depth) \o <<"}">>

----------------------------------------------------------------------------
(* Paths: path.join, path.resolve                                          *)

Proj == <<"proj">>
Dashboard == <<"dashboard">>
Agents == <<"agents">>
Skills == <<"skills">>
Commands == <<"commands">>
SkillMd == <<"SKILL.md">>
McpJson == <<".mcp.json">>

\* split a path string at "/" into its segments
RECURSIVE Segments(_, _, _)
Segments(p, i, cur) ==
  IF i > Len(p) THEN <<cur>>
  ELSE IF p[i] = "/" THEN <<cur>> \o Segments(p, i + 1, <<>>)
  ELSE Segments(p, i + 1, Append(cur, p[i]))

\* path.normalize on an absolute base: "" and "." vanish, ".." pops
RECURSIVE Normalize(_, _, _)
Normalize(base, segs, i) ==
  IF i > Len(segs) THEN base
  ELSE IF segs[i] = <<>> \/ segs[i] = <<".">> THEN Normalize(base, segs, i + 1)
  ELSE IF segs[i] = <<"..">>
       THEN Normalize(IF base = <<>> THEN <<>> ELSE SubSeq(base, 1, Len(base) - 1),
                      segs, i + 1)
  ELSE Normalize(Append(base, segs[i]), segs, i + 1)

\* path.join(dir, p) for an absolute directory dir
join(dir, p) == Normalize(dir, Segments(p, 1, <<>>), 1)

\* process.cwd(): the dashboard directory
cwd == <<Proj, Dashboard>>

\* resolve(process.cwd(), '..')
rootDir == join(cwd, <<"..">>)

----------------------------------------------------------------------------
(* Filesystem: fs/promises readdir, readFile, writeFile                    *)

DirNode(listing) == [kind |-> "dir", content |-> <<>>, listing |-> listing]
FileNode(c) == [kind |-> "file", content |-> c, listing |-> <<>>]
\* an entry the process may neither read nor write (EACCES)
NoAccess == [kind |-> "noaccess", content |-> <<>>, listing |-> <<>>]

Parent(p) == SubSeq(p, 1, Len(p) - 1)
Base(p) == p[Len(p)]

IsDir(f, p) == p \in DOMAIN f /\ f[p].kind = "dir"
IsFile(f, p) == p \in DOMAIN f /\ f[p].kind = "file"

\* readdir(p) resolves (with f[p].listing) iff p is a directory
readdirOk(f, p) == IsDir(f, p)

\* readFile(p, 'utf-8') resolves (with f[p].content) iff p is a readable file
readFileOk(f, p) == IsFile(f, p)

\* writeFile(p, ...) resolves iff the parent is a directory and p is absent
\* or a writable regular file
writeFileOk(f, p) ==
  /\ p # <<>>
  /\ IsDir(f, Parent(p))
  /\ (p \notin DOMAIN f \/ f[p].kind = "file")

InsertAt(s, i, x) == SubSeq(s, 1, i - 1) \o <<x>> \o SubSeq(s, i, Len(s))

\* faulty variant: the content is appended to what the file holds (flag 'a')
writeFileAppending(f, p, c) ==
  IF p \in DOMAIN f
  THEN {[f EXCEPT ![p] = FileNode(f[p].content \o c)]}
  ELSE {(p :> FileNode(c)) @@
        [f EXCEPT ![Parent(p)] =
           DirNode(InsertAt(f[Parent(p)].listing, i, Base(p)))]
        : i \in 1..(Len(f[Parent(p)].listing) + 1)}

\* faulty variant: a file that exists is left as it is (flag 'wx', the
\* rejection swallowed)
writeFileIfAbsent(f, p, c) ==
  IF p \in DOMAIN f
  THEN {f}
  ELSE {(p :> FileNode(c)) @@
        [f EXCEPT ![Parent(p)] =
           DirNode(InsertAt(f[Parent(p)].listing, i, Base(p)))]
        : i \in 1..(Len(f[Parent(p)].listing) + 1)}

\* the filesystems writeFile(p, c, 'utf-8') can leave: an existing file is
\* replaced in place; a new file enters its directory's listing at a position
\* the filesystem chooses.  Contents are texts of well-formed characters, on
\* which encoding as UTF-8 and decoding again gives the same text.
writeFile(f, p, c) ==
  IF p \in DOMAIN f
  THEN {[f EXCEPT ![p] = FileNode(c)]}
  ELSE {(p :> FileNode(c)) @@
        [f EXCEPT ![Parent(p)] =
           DirNode(InsertAt(f[Parent(p)].listing, i, Base(p)))]
        : i \in 1..(Len(f[Parent(p)].listing) + 1)}

----------------------------------------------------------------------------
(* Source trees: the inputs of generateData                                *)

TextPurpose == <<"#", "#", SP, "Purpose", ":", SP, "x">>
TextPlain == <<"#", SP, "t", NL, "x">>
TextGarbage == <<"{", "x">>

\* sequences of at most n distinct elements of S
Perms(S, n) ==
  {s \in UNION {[1..k -> S] : k \in 0..n} :
     \A i \in DOMAIN s : \A j \in DOMAIN s : i # j => s[i] # s[j]}

\* a directory entry: its name and the nodes at and below it
Entry(name, sub) == [name |-> name, sub |-> sub]
FileEntry(name, c) == Entry(name, <<>> :> FileNode(c))

AgentPool ==
  { FileEntry(<<"a", "-", "b", ".md">>, TextPurpose),
    FileEntry(<<"n", ".txt">>, TextPlain),
    Entry(<<"c", ".md">>, <<>> :> NoAccess) }

SkillPool ==
  { Entry(<<"s", "-", "t">>,
          (<<>> :> DirNode(<<SkillMd>>)) @@ (<<SkillMd>> :> FileNode(TextPurpose))),
    Entry(<<"e">>, <<>> :> DirNode(<<>>)) }

CommandPool ==
  { FileEntry(<<"k", ".md">>, TextPlain),
    Entry(<<"c", ".md">>, <<>> :> NoAccess) }

HttpCfg ==
  JObj(<<Member(<<"type">>, JStr(<<"http">>)), Member(<<"url">>, JStr(<<"https://x">>))>>)
StdioCfg == JObj(<<Member(<<"command">>, JStr(<<"npx">>))>>)

ServerPool ==
  { Member(<<"docs">>, HttpCfg), Member(<<"fs">>, StdioCfg), Member(<<"bad">>, JNull) }

McpDoc(servers) == JObj(<<Member(<<"mcpServers">>, JObj(servers))>>)

\* the JSON documents the model's files can hold
JsonUniverse ==
  {McpDoc(m) : m \in Perms(ServerPool, MaxList)}
    \cup {JObj(<<>>), HttpCfg, StdioCfg, JNull}

JsonText == [v \in JsonUniverse |-> stringify(v, 0)]

\* JSON.parse(t): the document whose text is t; throws (ok = FALSE) otherwise
parse(t) ==
  LET hits == {v \in JsonUniverse : JsonText[v] = t}
  IN [ok |-> hits # {}, value |-> IF hits # {} THEN CHOOSE v \in hits : TRUE ELSE JNull]

\* one scanned directory: absent, or a listing
DirVariants(pool) ==
  {[exists |-> FALSE, entries |-> <<>>]}
    \cup {[exists |-> TRUE, entries |-> es] : es \in Perms(pool, MaxList)}

\* .mcp.json: absent, not JSON, or a JSON document
McpVariants ==
  {[exists |-> FALSE, text |-> <<>>], [exists |-> TRUE, text |-> TextGarbage]}
    \cup {[exists |-> TRUE, text |-> JsonText[d]] :
            d \in {McpDoc(m) : m \in Perms(ServerPool, MaxList)} \cup {JObj(<<>>)}}

RECURSIVE EntryNodes(_, _, _)
EntryNodes(dir, es, i) ==
  IF i > Len(es) THEN <<>>
  ELSE [p \in {<<Proj, dir, es[i].name>> \o rel : rel \in DOMAIN es[i].sub}
          |-> es[i].sub[SubSeq(p, 4, Len(p))]]
       @@ EntryNodes(dir, es, i + 1)

\* the nodes of top-level directory `dir` of the project (rootDir = <<Proj>>)
DirTree(dir, v) ==
  IF ~v.exists THEN <<>>
  ELSE (<<Proj, dir>> :> DirNode([i \in 1..Len(v.entries) |-> v.entries[i].name]))
       @@ [p \in DOMAIN EntryNodes(dir, v.entries, 1)
             |-> EntryNodes(dir, v.entries, 1)[p]]

TopListing(a, s, c, m) ==
  <<Dashboard>>
    \o (IF a.exists THEN <<Agents>> ELSE <<>>)
    \o (IF s.exists THEN <<Skills>> ELSE <<>>)
    \o (IF c.exists THEN <<Commands>> ELSE <<>>)
    \o (IF m.exists THEN <<McpJson>> ELSE <<>>)

\* the filesystem holding agents a, skills s, commands c and MCP config m
Tree(a, s, c, m) ==
  (<<>> :> DirNode(<<Proj>>))
    @@ (<<Proj>> :> DirNode(TopListing(a, s, c, m)))
    @@ (cwd :> DirNode(<<>>))
    @@ DirTree(Agents, a) @@ DirTree(Skills, s) @@ DirTree(Commands, c)
    @@ (IF m.exists THEN (<<Proj, McpJson>> :> FileNode(m.text)) ELSE <<>>)

----------------------------------------------------------------------------
(* generateData: the four scans                                            *)

Component(id, name, type, desc, path, content) ==
  [id |-> id, name |-> name, type |-> type, description |-> desc,
   path |-> path, content |-> content]

\* the outcome of a block of statements: the components it pushed and
\* whether an exception left it
Block(items, threw) == [items |-> items, threw |-> threw]

\* lines 23-33
AgentItem(file, content) ==
  LET name == replaceHyphens(replace(file, <<".md">>, <<>>))
  IN Component(<<"agent-">> \o replace(file, <<".md">>, <<>>),
               capitalize(name),
               "agent",
               description(content, <<"AI agent for specialized tasks">>),
               <<"agents", "/">> \o file,
               content)

\* faulty variant: each file is read in a try of its own, an unreadable file
\* is skipped and the loop goes on
RECURSIVE AgentsLoopSkipping(_, _, _, _)
AgentsLoopSkipping(f, agentsDir, agentFiles, i) ==
  IF i > Len(agentFiles) THEN Block(<<>>, FALSE)
  ELSE LET file == agentFiles[i]
           rest == AgentsLoopSkipping(f, agentsDir, agentFiles, i + 1)
       IN IF ~endsWith(file, <<".md">>) \/ ~readFileOk(f, join(agentsDir, file))
          THEN rest
          ELSE Block(<<AgentItem(file, f[join(agentsDir, file)].content)>> \o rest.items,
                     rest.threw)

\* lines 21-35: for (const file of agentFiles)
RECURSIVE AgentsLoop(_, _, _, _)
AgentsLoop(f, agentsDir, agentFiles, i) ==
  IF i > Len(agentFiles) THEN Block(<<>>, FALSE)
  ELSE LET file == agentFiles[i]
       IN IF ~endsWith(file, <<".md">>) THEN AgentsLoop(f, agentsDir, agentFiles, i + 1)
          ELSE IF ~readFileOk(f, join(agentsDir, file)) THEN Block(<<>>, TRUE)
          ELSE LET rest == AgentsLoop(f, agentsDir, agentFiles, i + 1)
               IN Block(<<AgentItem(file, f[join(agentsDir, file)].content)>> \o rest.items,
                        rest.threw)

\* lines 19-35: the body of the agents try block
ReadAgents(f) ==
  LET agentsDir == join(rootDir, Agents)
  IN IF ~readdirOk(f, agentsDir) THEN Block(<<>>, TRUE)
     ELSE AgentsLoop(f, agentsDir, f[agentsDir].listing, 1)

\* faulty variant: no catch, the exception leaves the statement
TryRethrow(body, label) ==
  [items |-> body.items, log |-> <<>>, threw |-> body.threw]

\* a try { body } catch (e) { console.error(label, e) }: the exception is
\* logged and does not leave the statement
TryCatch(body, label) ==
  [items |-> body.items,
   log   |-> IF body.threw THEN <<label>> ELSE <<>>,
   threw |-> FALSE]

\* lines 18-38
ScanAgents(f) == TryCatch(ReadAgents(f), "Error reading agents:")

\* lines 48-56
SkillItem(dir, content) ==
  Component(<<"skill-">> \o dir,
            capitalizeWords(replaceHyphens(dir)),
            "skill",
            description(content, <<"Pattern/skill for development">>),
            <<"skills", "/">> \o dir \o <<"/", "SKILL.md">>,
            content)

\* faulty variant: no inner try, a missing SKILL.md throws out of the loop
TrySkillUncaught(f, skillFile, dir) ==
  IF ~readFileOk(f, skillFile) THEN Block(<<>>, TRUE)
  ELSE Block(<<SkillItem(dir, f[skillFile].content)>>, FALSE)

\* lines 46-57: try { ... } catch {} around one skill directory
TrySkill(f, skillFile, dir) ==
  IF ~readFileOk(f, skillFile) THEN Block(<<>>, FALSE)
  ELSE Block(<<SkillItem(dir, f[skillFile].content)>>, FALSE)

\* lines 44-58: for (const dir of skillDirs)
RECURSIVE SkillsLoop(_, _, _, _)
SkillsLoop(f, skillsDir, skillDirs, i) ==
  IF i > Len(skillDirs) THEN Block(<<>>, FALSE)
  ELSE LET dir  == skillDirs[i]
           one  == TrySkill(f, join(join(skillsDir, dir), SkillMd), dir)
       IN IF one.threw THEN Block(<<>>, TRUE)
          ELSE LET rest == SkillsLoop(f, skillsDir, skillDirs, i + 1)
               IN Block(one.items \o rest.items, rest.threw)

\* lines 42-58: the body of the skills try block
ReadSkills(f) ==
  LET skillsDir == join(rootDir, Skills)
  IN IF ~readdirOk(f, skillsDir) THEN Block(<<>>, TRUE)
     ELSE SkillsLoop(f, skillsDir, f[skillsDir].listing, 1)

\* lines 41-61
ScanSkills(f) == TryCatch(ReadSkills(f), "Error reading skills:")

\* lines 69-79
CommandItem(file, content) ==
  LET name == replace(file, <<".md">>, <<>>)
  IN Component(<<"command-">> \o name,
               <<"/">> \o name,
               "command",
               description(content, <<"Scaffold command">>),
               <<"commands", "/">> \o file,
               content)

\* lines 67-81: for (const file of commandFiles)
RECURSIVE CommandsLoop(_, _, _, _)
CommandsLoop(f, commandsDir, commandFiles, i) ==
  IF i > Len(commandFiles) THEN Block(<<>>, FALSE)
  ELSE LET file == commandFiles[i]
       IN IF ~endsWith(file, <<".md">>)
          THEN CommandsLoop(f, commandsDir, commandFiles, i + 1)
          ELSE IF ~readFileOk(f, join(commandsDir, file)) THEN Block(<<>>, TRUE)
          ELSE LET rest == CommandsLoop(f, commandsDir, commandFiles, i + 1)
               IN Block(<<CommandItem(file, f[join(commandsDir, file)].content)>>
                          \o rest.items,
                        rest.threw)

\* lines 65-81: the body of the commands try block
ReadCommands(f) ==
  LET commandsDir == join(rootDir, Commands)
  IN IF ~readdirOk(f, commandsDir) THEN Block(<<>>, TRUE)
     ELSE CommandsLoop(f, commandsDir, f[commandsDir].listing, 1)

\* lines 64-84
ScanCommands(f) == TryCatch(ReadCommands(f), "Error reading commands:")

\* `${value}` of a looked-up property
TemplateString(g) ==
  CASE ~g.has -> <<"undefined">>
    [] g.value.t = "null" -> <<"null">>
    [] g.value.t = "str" -> g.value.s
    [] OTHER -> <<"[object Object]">>

\* Object.entries(v) of a truthy value
Entries(v) ==
  IF v.t = "obj" THEN v.kv
  ELSE [i \in 1..Len(v.s) |-> Member(<<ToString(i - 1)>>, JStr(<<v.s[i]>>))]

\* lines 93-100
McpItem(name, config) ==
  Component(<<"mcp-">> \o name,
            name,
            "mcp",
            IF Get(config, <<"type">>).has /\ Get(config, <<"type">>).value = JStr(<<"http">>)
            THEN <<"HTTP: ">> \o TemplateString(Get(config, <<"url">>))
            ELSE <<"stdio server">>,
            McpJson,
            stringify(config, 0))

\* lines 92-101: for (const [name, config] of Object.entries(mcp.mcpServers));
\* (config as any).type throws for a null config
RECURSIVE McpLoop(_, _)
McpLoop(entries, i) ==
  IF i > Len(entries) THEN Block(<<>>, FALSE)
  ELSE IF Get(entries[i].v, <<"type">>).throws THEN Block(<<>>, TRUE)
  ELSE LET rest == McpLoop(entries, i + 1)
       IN Block(<<McpItem(entries[i].k, entries[i].v)>> \o rest.items, rest.threw)

\* faulty variant: no `if (mcp.mcpServers)`, Object.entries throws for a
\* document without the key
ReadMcpUnguarded(f) ==
  LET mcpFile == join(rootDir, McpJson)
  IN IF ~readFileOk(f, mcpFile) THEN Block(<<>>, TRUE)
     ELSE LET mcp == parse(f[mcpFile].content)
          IN IF ~mcp.ok THEN Block(<<>>, TRUE)
             ELSE LET servers == Get(mcp.value, <<"mcpServers">>)
                  IN IF servers.throws \/ ~Truthy(servers) THEN Block(<<>>, TRUE)
                     ELSE McpLoop(Entries(servers.value), 1)

\* lines 88-102: the body of the MCP try block
ReadMcp(f) ==
  LET mcpFile == join(rootDir, McpJson)
  IN IF ~readFileOk(f, mcpFile) THEN Block(<<>>, TRUE)
     ELSE LET mcp == parse(f[mcpFile].content)
          IN IF ~mcp.ok THEN Block(<<>>, TRUE)
             ELSE LET servers == Get(mcp.value, <<"mcpServers">>)
                  IN IF servers.throws THEN Block(<<>>, TRUE)
                     ELSE IF ~Truthy(servers) THEN Block(<<>>, FALSE)
                     ELSE McpLoop(Entries(servers.value), 1)

\* lines 87-105
ScanMcp(f) == TryCatch(ReadMcp(f), "Error reading MCP config:")

\* statements run in sequence: a statement is reached only if none before it
\* threw; the components pushed so far stay in the array
RECURSIVE Sequence(_, _)
Sequence(steps, i) ==
  IF i > Len(steps) THEN [items |-> <<>>, log |-> <<>>, threw |-> FALSE]
  ELSE IF steps[i].threw
       THEN [items |-> steps[i].items, log |-> steps[i].log, threw |-> TRUE]
  ELSE LET rest == Sequence(steps, i + 1)
       IN [items |-> steps[i].items \o rest.items,
           log   |-> steps[i].log \o rest.log,
           threw |-> rest.threw]

\* faulty variant: one try block around the four scans, the first fault ends them all
RECURSIVE OneTry(_, _)
OneTry(bodies, i) ==
  IF i > Len(bodies) THEN Block(<<>>, FALSE)
  ELSE IF bodies[i].threw THEN Block(bodies[i].items, TRUE)
  ELSE Block(bodies[i].items \o OneTry(bodies, i + 1).items, OneTry(bodies, i + 1).threw)

ScanOneTry(f) ==
  TryCatch(OneTry(<<ReadAgents(f), ReadSkills(f), ReadCommands(f), ReadMcp(f)>>, 1),
           "Error generating data:")

\* faulty variant: the skills are scanned before the agents
ScanSkillsFirst(f) ==
  Sequence(<<ScanSkills(f), ScanAgents(f), ScanCommands(f), ScanMcp(f)>>, 1)

\* lines 14-105: the components array, the error log and whether an
\* exception escaped before the artifact is written
Scan(f) ==
  Sequence(<<ScanAgents(f), ScanSkills(f), ScanCommands(f), ScanMcp(f)>>, 1)

----------------------------------------------------------------------------
(* generateData: writing the artifact                                      *)

\* out: what the output location did in that run
NoBuild == [status |-> "none", log |-> <<>>, count |-> -1, out |-> "none"]

\* faulty variant: the scanned components are added to the artifact's old content
WriteArtifactAppending(art, scan, out) ==
  IF scan.threw \/ out # "ok"
  THEN [artifact |-> art,
        build |-> [status |-> "failed", log |-> scan.log, count |-> -1, out |-> out]]
  ELSE [artifact |-> [dir |-> TRUE, file |-> TRUE, items |-> art.items \o scan.items],
        build |-> [status |-> "done", log |-> scan.log,
                   count |-> Len(art.items \o scan.items), out |-> out]]

\* faulty variant: an incremental update, the items of the old artifact that
\* the scan did not find again are kept
WriteArtifactMerging(art, scan, out) ==
  LET kept == SelectSeq(art.items,
                        LAMBDA c : \A i \in 1..Len(scan.items) : scan.items[i].id # c.id)
  IN IF scan.threw \/ out # "ok"
     THEN [artifact |-> art,
           build |-> [status |-> "failed", log |-> scan.log, count |-> -1, out |-> out]]
     ELSE [artifact |-> [dir |-> TRUE, file |-> TRUE, items |-> kept \o scan.items],
           build |-> [status |-> "done", log |-> scan.log,
                      count |-> Len(kept \o scan.items), out |-> out]]

\* lines 107-114.  out is what the output location allows: "ok", or mkdir
\* rejects, or writeFile rejects (the rejection is not caught: the run fails).
\* mkdir({recursive: true}) creates the directory if absent; writeFile
\* replaces the whole file by JSON.stringify(components, null, 2), which the
\* server's import parses back to the same array of string records.
WriteArtifact(art, scan, out) ==
  IF scan.threw \/ out = "mkdirFails"
  THEN [artifact |-> art,
        build |-> [status |-> "failed", log |-> scan.log, count |-> -1, out |-> out]]
  ELSE IF out = "writeFails"
  THEN [artifact |-> [art EXCEPT !.dir = TRUE],
        build |-> [status |-> "failed", log |-> scan.log, count |-> -1, out |-> out]]
  ELSE [artifact |-> [dir |-> TRUE, file |-> TRUE, items |-> scan.items],
        build |-> [status |-> "done", log |-> scan.log, count |-> Len(scan.items),
                   out |-> out]]

\* lines 13-115: the outcomes of a run, one for each thing the output
\* location may do (mkdir with recursive: true succeeds on a directory that
\* exists)
generateData(f, art, outs) ==
  LET scan == Scan(f)
  IN {WriteArtifact(art, scan, out) :
        out \in {o \in outs : o = "mkdirFails" => ~art.dir}}

\* the outcome of a run whose output location is writable
Generated(f, art) == CHOOSE g \in generateData(f, art, {"ok"}) : TRUE

----------------------------------------------------------------------------
(* Server handlers                                                         *)

NoBody == [present |-> FALSE, hasContent |-> FALSE, content |-> <<>>]
EmptyObjectBody == [present |-> TRUE, hasContent |-> FALSE, content |-> <<>>]
ContentBody(c) == [present |-> TRUE, hasContent |-> TRUE, content |-> c]

Request(path, body) == [path |-> path, body |-> body]

Response(op, req, status, message, list, path, content, success) ==
  [op |-> op, req |-> req, status |-> status, message |-> message,
   list |-> list, path |-> path, content |-> content, success |-> success]

\* createError({ statusCode, message })
Error(op, req, status, message) ==
  Response(op, req, status, message, <<>>, <<>>, <<>>, FALSE)

NoResponse == Error("none", Request(<<>>, NoBody), 0, "")

\* ({ content, ...rest }) => rest
Rest(c) == [k \in DOMAIN c \ {"content"} |-> c[k]]

\* faulty variant: the entries are returned as stored, content included
listItemsWithContent(componentsData) ==
  Response("list", Request(<<>>, NoBody), 200, "",
           [i \in 1..Len(componentsData) |-> componentsData[i]],
           <<>>, <<>>, FALSE)

\* components.get.ts lines 3-6
listItems(componentsData) ==
  Response("list", Request(<<>>, NoBody), 200, "",
           [i \in 1..Len(componentsData) |-> Rest(componentsData[i])],
           <<>>, <<>>, FALSE)

\* faulty variant: the paths are compared ignoring case
findIgnoringCase(componentsData, path) ==
  LET low(p) == [i \in 1..Len(p) |-> Lower(p[i])]
      hits == {i \in 1..Len(componentsData) : low(componentsData[i].path) = low(path)}
  IN IF hits = {} THEN 0 ELSE CHOOSE h \in hits : \A g \in hits : h <= g

\* componentsData.find(c => c.path === path): index of the first match, 0 if none
find(componentsData, path) ==
  LET hits == {i \in 1..Len(componentsData) : componentsData[i].path = path}
  IN IF hits = {} THEN 0 ELSE CHOOSE h \in hits : \A g \in hits : h <= g

\* [...path].get.ts lines 3-15
getItemContent(componentsData, path) ==
  LET req == Request(path, NoBody)
  IN IF path = <<>> THEN Error("get", req, 400, "Path required")
     ELSE IF find(componentsData, path) = 0
          THEN Error("get", req, 404, "Component not found")
     ELSE Response("get", req, 200, "", <<>>, path,
                   componentsData[find(componentsData, path)].content, FALSE)

\* faulty variant: the body is not checked
saveValidatePathOnly(path, body) ==
  IF path = <<>> THEN Error("put", Request(path, body), 400, "Path required")
  ELSE NoResponse

\* faulty variant: a path that resolves outside the project root is rejected
saveValidateContained(path, body) ==
  LET req == Request(path, body)
      target == join(rootDir, path)
  IN IF path = <<>> THEN Error("put", req, 400, "Path required")
     ELSE IF ~body.present \/ ~body.hasContent \/ body.content = <<>>
          THEN Error("put", req, 400, "Content required")
     ELSE IF Len(target) <= Len(rootDir) \/ SubSeq(target, 1, Len(rootDir)) # rootDir
          THEN Error("put", req, 400, "Invalid path")
     ELSE NoResponse

\* [...path].put.ts lines 5-13: the checks before the write.  The 400 response,
\* or NoResponse when the request goes on to the write
saveValidate(path, body) ==
  LET req == Request(path, body)
  IN IF path = <<>> THEN Error("put", req, 400, "Path required")
     ELSE IF ~body.present \/ ~body.hasContent \/ body.content = <<>>
          THEN Error("put", req, 400, "Content required")
     ELSE NoResponse

\* [...path].put.ts lines 15-16
filePath(path) == join(rootDir, path)

\* faulty variant: writeFile is not awaited, the handler answers before it settles
saveWriteUnawaited(f, req, io) ==
  {[fs |-> g, resp |-> Response("put", req, 200, "", <<>>, req.path, <<>>, TRUE)]
   : g \in IF io /\ writeFileOk(f, filePath(req.path))
           THEN writeFile(f, filePath(req.path), req.body.content)
           ELSE {f}}

\* faulty variant: a file that exists is kept and success is answered (the
\* first writer wins)
saveWriteFirstWins(f, req, io) ==
  IF io /\ writeFileOk(f, filePath(req.path))
  THEN {[fs |-> g,
         resp |-> Response("put", req, 200, "", <<>>, req.path, <<>>, TRUE)]
        : g \in IF filePath(req.path) \in DOMAIN f THEN {f}
                ELSE writeFile(f, filePath(req.path), req.body.content)}
  ELSE {[fs |-> f, resp |-> Error("put", req, 500, "Failed to save file")]}

\* [...path].put.ts lines 18-23: the outcomes {fs, resp} of the write.  io is
\* FALSE when the device fails the write (EIO, ENOSPC)
saveWrite(f, req, io) ==
  IF io /\ writeFileOk(f, filePath(req.path))
  THEN {[fs |-> g,
         resp |-> Response("put", req, 200, "", <<>>, req.path, <<>>, TRUE)]
        : g \in writeFile(f, filePath(req.path), req.body.content)}
  ELSE {[fs |-> f, resp |-> Error("put", req, 500, "Failed to save file")]}

----------------------------------------------------------------------------
(* History *)

NoSave == [path |-> <<>>, content |-> <<>>, type |-> "none", raced |-> FALSE]
NoHist == [lastSave |-> NoSave, prev |-> NoSave, built |-> FALSE, loaded |-> FALSE]

\* another request for the same path is in flight while req's write is applied
Raced(inflight, req) ==
  \E other \in BagToSet(inflight (-) SetToBag({req})) : other.path = req.path

\* the type of the catalog item with this path, "none" for no item
TypeOfPath(componentsData, path) ==
  IF find(componentsData, path) = 0 THEN "none"
  ELSE componentsData[find(componentsData, path)].type

----------------------------------------------------------------------------
(* Actions *)

\* GET /api/components
ListItems ==
  /\ resp' = listItems(catalog)
  /\ UNCHANGED <<fs, artifact, catalog, pending, build, hist, nSaves, nBuilds, client>>

\* GET /api/component/{path}
GetItemContent(path) ==
  /\ resp' = getItemContent(catalog, path)
  /\ UNCHANGED <<fs, artifact, catalog, pending, build, hist, nSaves, nBuilds, client>>

\* PUT /api/component/{path}, up to `await writeFile`: rejected with 400, or
\* in flight
SaveItemContentBegin(path, body) ==
  /\ nSaves < MaxSaves
  /\ IF saveValidate(path, body) # NoResponse
     THEN /\ resp' = saveValidate(path, body)
          /\ UNCHANGED <<pending, nSaves>>
     ELSE /\ pending' = pending (+) SetToBag({Request(path, body)})
          /\ nSaves' = nSaves + 1
          /\ UNCHANGED resp
  /\ UNCHANGED <<fs, artifact, catalog, build, hist, nBuilds, client>>

\* faulty variant: a successful save also updates the loaded catalog entry
SaveItemContentWriteThrough(req) ==
  /\ BagIn(req, pending)
  /\ \E io \in BOOLEAN : \E o \in saveWrite(fs, req, io) :
       /\ fs' = o.fs
       /\ resp' = o.resp
       /\ hist' = hist
       /\ catalog' = IF o.resp.status = 200
                     THEN [i \in 1..Len(catalog) |->
                             IF catalog[i].path = req.path
                             THEN [catalog[i] EXCEPT !.content = req.body.content]
                             ELSE catalog[i]]
                     ELSE catalog
  /\ pending' = pending (-) SetToBag({req})
  /\ UNCHANGED <<artifact, build, nSaves, nBuilds, client>>

\* PUT /api/component/{path}: writeFile settles and the handler responds
SaveItemContentWrite(req) ==
  /\ BagIn(req, pending)
  /\ \E io \in BOOLEAN : \E o \in saveWrite(fs, req, io) :
       /\ fs' = o.fs
       /\ resp' = o.resp
       /\ hist' = IF o.resp.status = 200
                  THEN [lastSave |-> [path |-> req.path, content |-> req.body.content,
                                      type |-> TypeOfPath(catalog, req.path),
                                      raced |-> Raced(pending, req)],
                        prev |-> IF hist.lastSave.path = req.path
                                 THEN hist.lastSave ELSE NoSave,
                        built |-> FALSE, loaded |-> FALSE]
                  ELSE hist
  /\ pending' = pending (-) SetToBag({req})
  /\ UNCHANGED <<artifact, catalog, build, nSaves, nBuilds, client>>

\* one run of the data-generation script
GenerateData(outs) ==
  /\ nBuilds < MaxBuilds
  /\ \E g \in generateData(fs, artifact, outs) :
          /\ artifact' = g.artifact
          /\ build' = g.build
          /\ hist' = [hist EXCEPT !.built = (g.build.status = "done"), !.loaded = FALSE]
  /\ nBuilds' = nBuilds + 1
  /\ UNCHANGED <<fs, catalog, pending, resp, nSaves, client>>

\* the server is bundled again: import componentsData from '~/data/components.json'
Reload ==
  /\ artifact.file
  /\ catalog' = artifact.items
  /\ hist' = [hist EXCEPT !.loaded = hist.built]
  /\ UNCHANGED <<fs, artifact, pending, resp, build, nSaves, nBuilds, client>>

----------------------------------------------------------------------------
(* Client: app/pages/index.vue                                             *)

ErrorLoading == <<"Error loading content">>

\* lines 13-17, 70: the refs after setup.  selectedComponent is an index of
\* the fetched list, 0 for null.  loads and saves are the $fetch calls in
\* flight.  loadedFor (the path whose response set componentContent), typed
\* (the text was entered in the textarea), lastLoad and lastSave (how the
\* most recent $fetch of each kind settled) record history, as do the fields
\* loadedFor, typed and button (the Save button was on screen) of a save.
NoClient ==
  [selectedComponent |-> 0, componentContent |-> <<>>, isEditing |-> FALSE,
   isPanelOpen |-> FALSE, isSaving |-> FALSE, toasts |-> <<>>,
   loads |-> EmptyBag, saves |-> EmptyBag, nSelects |-> 0,
   loadedFor |-> <<>>, typed |-> FALSE,
   lastLoad |-> [path |-> <<>>, status |-> 0],
   lastSave |-> [path |-> <<>>, status |-> 0]]

\* line 13: the list the page fetched from /api/components
Components == listItems(catalog).list

\* line 343: the spinner is shown while componentContent is the empty string
Loading(c) == c.componentContent = <<>>

\* lines 57-63: up to the await
SelectComponent(i) ==
  /\ client.nSelects < MaxSelects
  /\ client' = [client EXCEPT !.selectedComponent = i,
                              !.isEditing = FALSE,
                              !.componentContent = <<>>,
                              !.isPanelOpen = TRUE,
                              !.loads = @ (+) SetToBag({Components[i].path}),
                              !.nSelects = @ + 1,
                              !.loadedFor = <<>>,
                              !.typed = FALSE]
  /\ UNCHANGED <<fs, artifact, catalog, pending, resp, build, hist, nSaves, nBuilds>>

\* lines 63-67: the $fetch of a selectComponent call settles.  net is FALSE
\* when the request does not reach the server; $fetch rejects then, and for
\* every answer that is not 2xx
LoadSettles(path) ==
  /\ BagIn(path, client.loads)
  /\ \E net \in BOOLEAN :
       LET r == getItemContent(catalog, path)
           ok == net /\ r.status = 200
       IN /\ resp' = IF net THEN r ELSE resp
          /\ client' = [client EXCEPT
                          !.componentContent = IF ok THEN r.content ELSE ErrorLoading,
                          !.loads = @ (-) SetToBag({path}),
                          !.loadedFor = path,
                          !.typed = FALSE,
                          !.lastLoad = [path |-> path,
                                        status |-> IF net THEN r.status ELSE 0]]
  /\ UNCHANGED <<fs, artifact, catalog, pending, build, hist, nSaves, nBuilds>>

\* lines 328, 337, 365: the Preview, Edit and Cancel buttons of the panel
SetEditing(b) ==
  /\ client.isPanelOpen
  /\ client.isEditing # b
  /\ client' = [client EXCEPT !.isEditing = b]
  /\ UNCHANGED <<fs, artifact, catalog, pending, resp, build, hist, nSaves, nBuilds>>

\* lines 351-358: the textarea, rendered in edit mode when componentContent
\* is not empty, bound to componentContent with v-model
Type(text) ==
  /\ client.isPanelOpen
  /\ client.isEditing
  /\ ~Loading(client)
  /\ client.componentContent # text
  /\ client' = [client EXCEPT !.componentContent = text, !.typed = TRUE]
  /\ UNCHANGED <<fs, artifact, catalog, pending, resp, build, hist, nSaves, nBuilds>>

\* lines 73-80: up to the await.  With no component selected the call
\* returns at line 74 and changes nothing
SaveComponent ==
  /\ nSaves < MaxSaves
  /\ client.selectedComponent # 0
  /\ client' = [client EXCEPT
                  !.isSaving = TRUE,
                  !.saves = @ (+) SetToBag({[req |-> Request(
                                                      Components[client.selectedComponent].path,
                                                      ContentBody(client.componentContent)),
                                            loadedFor |-> client.loadedFor,
                                            typed |-> client.typed,
                                            button |-> client.isPanelOpen
                                                         /\ client.isEditing]})]
  /\ nSaves' = nSaves + 1
  /\ UNCHANGED <<fs, artifact, catalog, pending, resp, build, hist, nBuilds>>

\* lines 81-87 after the $fetch settled with this status: toast.add and
\* isEditing at 81-82 when it resolved, where selectedComponent.value.name
\* throws a TypeError for a null selectedComponent and control goes to the
\* catch; the toast of line 84 otherwise; line 86 in every case
saveSettled(c, s, status) ==
  [c EXCEPT !.toasts = Append(@, IF status = 200 /\ c.selectedComponent # 0
                                 THEN "Saved!" ELSE "Error"),
            !.isEditing = IF status = 200 /\ c.selectedComponent # 0 THEN FALSE ELSE @,
            !.isSaving = FALSE,
            !.saves = @ (-) SetToBag({s}),
            !.lastSave = [path |-> s.req.path, status |-> status]]

\* lines 77-87: the PUT of a saveComponent call is handled by the server
\* ([...path].put.ts) and the $fetch settles; net is FALSE when the request
\* does not reach the server
SaveSettles(s) ==
  /\ BagIn(s, client.saves)
  /\ \E net \in BOOLEAN : \E io \in BOOLEAN :
       IF ~net
       THEN /\ client' = saveSettled(client, s, 0)
            /\ UNCHANGED <<fs, resp, hist>>
       ELSE IF saveValidate(s.req.path, s.req.body) # NoResponse
       THEN /\ resp' = saveValidate(s.req.path, s.req.body)
            /\ client' = saveSettled(client, s, resp'.status)
            /\ UNCHANGED <<fs, hist>>
       ELSE \E o \in saveWrite(fs, s.req, io) :
              /\ fs' = o.fs
              /\ resp' = o.resp
              /\ client' = saveSettled(client, s, o.resp.status)
              /\ hist' = IF o.resp.status = 200
                         THEN [lastSave |-> [path |-> s.req.path,
                                             content |-> s.req.body.content,
                                             type |-> TypeOfPath(catalog, s.req.path),
                                             raced |-> FALSE],
                               prev |-> IF hist.lastSave.path = s.req.path
                                        THEN hist.lastSave ELSE NoSave,
                               built |-> FALSE, loaded |-> FALSE]
                         ELSE hist
  /\ UNCHANGED <<artifact, catalog, pending, build, nSaves, nBuilds>>

\* lines 90-95
ClosePanel ==
  /\ client.isPanelOpen \/ client.selectedComponent # 0
       \/ client.componentContent # <<>> \/ client.isEditing
  /\ client' = [client EXCEPT !.isPanelOpen = FALSE,
                              !.selectedComponent = 0,
                              !.componentContent = <<>>,
                              !.isEditing = FALSE,
                              !.loadedFor = <<>>,
                              !.typed = FALSE]
  /\ UNCHANGED <<fs, artifact, catalog, pending, resp, build, hist, nSaves, nBuilds>>

\* line 297: the slideover is dismissed, v-model:open sets isPanelOpen
DismissPanel ==
  /\ client.isPanelOpen
  /\ client' = [client EXCEPT !.isPanelOpen = FALSE]
  /\ UNCHANGED <<fs, artifact, catalog, pending, resp, build, hist, nSaves, nBuilds>>

----------------------------------------------------------------------------
(* Inputs and specifications *)

AgentAB == FileEntry(<<"a", "-", "b", ".md">>, TextPurpose)
AgentC == Entry(<<"c", ".md">>, <<>> :> NoAccess)
SkillST ==
  Entry(<<"s", "-", "t">>,
        (<<>> :> DirNode(<<SkillMd>>)) @@ (<<SkillMd>> :> FileNode(TextPurpose)))
SkillE == Entry(<<"e">>, <<>> :> DirNode(<<>>))
CommandK == FileEntry(<<"k", ".md">>, TextPlain)

Dir(entries) == [exists |-> TRUE, entries |-> entries]
NoDir == [exists |-> FALSE, entries |-> <<>>]

\* the source tree the server is started on
ServedTree ==
  Tree(Dir(<<AgentAB, AgentC>>), Dir(<<SkillST>>), Dir(<<CommandK>>),
       [exists |-> TRUE,
        text |-> JsonText[McpDoc(<<Member(<<"docs">>, HttpCfg), Member(<<"fs">>, StdioCfg)>>)]])

NewText1 == <<"#", "#", SP, "Description", SP, "y">>

\* the {path} values GET requests carry
GetPaths ==
  { <<>>,
    <<"agents", "/", "a", "-", "b", ".md">>,
    <<"agents", "/", "n", ".md">> }

\* the {path} values PUT requests carry
PutPaths ==
  { <<>>,
    <<"agents", "/", "a", "-", "b", ".md">>,
    <<"skills", "/", "s", "-", "t", "/", "SKILL.md">>,
    <<"agents", "/", "n", ".md">>,
    <<"agents", "/", "c", ".md">>,
    <<"nodir", "/", "x", ".md">> }

\* the request bodies of PUT
Bodies ==
  {NoBody, EmptyObjectBody, ContentBody(<<>>), ContentBody(NewText1)}

\* the artifact a run of generateData finds
OldArtifacts ==
  { [dir |-> FALSE, file |-> FALSE, items |-> <<>>],
    [dir |-> TRUE, file |-> TRUE,
     items |-> <<AgentItem(<<"o", ".md">>, TextPlain)>>] }

\* the server running on a catalog generated from its source tree
Init ==
  /\ fs = ServedTree
  /\ artifact = Generated(fs, [dir |-> FALSE, file |-> FALSE, items |-> <<>>]).artifact
  /\ catalog = artifact.items
  /\ pending = EmptyBag
  /\ resp = NoResponse
  /\ build = Generated(fs, artifact).build
  /\ hist = NoHist
  /\ nSaves = 0
  /\ nBuilds = 0
  /\ client = NoClient

Next ==
  \/ ListItems
  \/ \E path \in GetPaths : GetItemContent(path)
  \/ \E path \in PutPaths : \E body \in Bodies : SaveItemContentBegin(path, body)
  \/ \E req \in BagToSet(pending) : SaveItemContentWrite(req)
  \/ GenerateData({"ok"})
  \/ Reload

Spec == Init /\ [][Next]_vars

\* the data-generation script alone, on every source tree within the bound
InitBuild ==
  /\ fs \in {Tree(a, s, c, m) : a \in DirVariants(AgentPool), s \in DirVariants(SkillPool),
                                c \in DirVariants(CommandPool), m \in McpVariants}
  /\ artifact \in OldArtifacts
  /\ catalog = <<>>
  /\ pending = EmptyBag
  /\ resp = NoResponse
  /\ build = NoBuild
  /\ hist = NoHist
  /\ nSaves = 0
  /\ nBuilds = 0
  /\ client = NoClient

NextBuild == GenerateData({"ok", "mkdirFails", "writeFails"})

SpecBuild == InitBuild /\ [][NextBuild]_vars

\* the {path} values GET requests carry when only the read handlers run
ServePaths ==
  { <<>>,
    <<"agents", "/", "a", "-", "b", ".md">>,
    <<"skills", "/", "s", "-", "t", "/", "SKILL.md">>,
    <<".mcp.json">>,
    <<"agents">>,
    <<"agents", "/", "a", "-", "b">>,
    <<"agents", "/", "A", "-", "b", ".md">>,
    <<"skills", "/", "..", "/", "agents", "/", "a", "-", "b", ".md">>,
    <<"agents", "/", "n", ".md">> }

\* the read handlers alone, on the catalog of every tree of a family
InitServe ==
  /\ fs \in {Tree(a, s, NoDir, m) : a \in DirVariants(AgentPool),
                                    s \in {NoDir, Dir(<<SkillST>>)}, m \in McpVariants}
  /\ artifact = Generated(fs, [dir |-> FALSE, file |-> FALSE, items |-> <<>>]).artifact
  /\ catalog = artifact.items
  /\ pending = EmptyBag
  /\ resp = NoResponse
  /\ build = Generated(fs, artifact).build
  /\ hist = NoHist
  /\ nSaves = 0
  /\ nBuilds = 0
  /\ client = NoClient

NextServe ==
  \/ ListItems
  \/ \E path \in ServePaths : GetItemContent(path)

SpecServe == InitServe /\ [][NextServe]_vars

\* agent files whose names hold a hyphen, or ".md" before the extension
AgentNamePool ==
  { FileEntry(<<"a", "-", "b", ".md">>, TextPurpose),
    FileEntry(<<"x", ".md", "y", ".md">>, TextPlain),
    FileEntry(<<"x", "y", ".md", ".md">>, TextPlain) }

\* skills subdirectories: two with SKILL.md, one without
SkillDirPool ==
  { SkillST,
    Entry(<<"u">>, (<<>> :> DirNode(<<SkillMd>>)) @@ (<<SkillMd>> :> FileNode(TextPlain))),
    SkillE }

CommandJK == FileEntry(<<"j", "-", "k", ".md">>, TextPurpose)
CommandXY == FileEntry(<<"x", ".md", "y", ".md">>, TextPlain)

\* the commands directory: absent, or two files, one of them with a hyphen
\* or with ".md" before the extension
CommandNamePool ==
  { NoDir, Dir(<<CommandK, CommandJK>>), Dir(<<CommandXY, CommandK>>) }

\* .mcp.json: absent, or a document of two servers, each with a config
\* object, in either order
McpGoodVariants ==
  {[exists |-> FALSE, text |-> <<>>]}
    \cup {[exists |-> TRUE, text |-> JsonText[McpDoc(m)]] :
            m \in { <<Member(<<"docs">>, HttpCfg), Member(<<"fs">>, StdioCfg)>>,
                    <<Member(<<"fs">>, StdioCfg), Member(<<"docs">>, HttpCfg)>> }}

NoArtifact == [dir |-> FALSE, file |-> FALSE, items |-> <<>>]

\* the data-generation script on trees with several readable sources of each
\* kind, started with no artifact, with an older artifact, or right after a
\* run on the same tree; the server has imported the artifact it started with
InitCatalog ==
  /\ fs \in {Tree(a, s, c, m) : a \in DirVariants(AgentNamePool),
                                s \in DirVariants(SkillDirPool),
                                c \in CommandNamePool, m \in McpGoodVariants}
  /\ \E prior \in {<<a, NoBuild>> : a \in OldArtifacts}
                     \cup {<<Generated(fs, NoArtifact).artifact,
                             Generated(fs, NoArtifact).build>>} :
       /\ artifact = prior[1]
       /\ build = prior[2]
  /\ catalog = artifact.items
  /\ pending = EmptyBag
  /\ resp = NoResponse
  /\ hist = NoHist
  /\ nSaves = 0
  /\ nBuilds = 0
  /\ client = NoClient

NextCatalog == GenerateData({"ok", "writeFails"})

SpecCatalog == InitCatalog /\ [][NextCatalog]_vars

\* the texts of the source files when the descriptions are at stake
TextNextLine == <<"#", "#", SP, "Purpose", NL, "y">>
TextUpperCase == <<"#", "#", SP, "PURPOSE", ":", SP, "x">>
TextTwoLines == <<"#", SP, "t", NL, "#", "#", "Description", SP, "x", SP, "y", NL, "z">>
TextHeadingOnly == <<"#", "#", SP, "Description", ":", NL>>
TextBlankAfter == <<"#", "#", SP, "Purpose", ":", SP>>

DescTexts ==
  {<<>>, TextPurpose, TextPlain, TextNextLine, TextUpperCase, TextTwoLines, TextHeadingOnly,
   TextBlankAfter}

\* the data-generation script on one agent, one skill and one command, each
\* holding one of the texts
InitDescribe ==
  /\ fs \in {Tree(Dir(<<FileEntry(<<"a", "-", "b", ".md">>, ta)>>),
                   Dir(<<Entry(<<"s", "-", "t">>,
                               (<<>> :> DirNode(<<SkillMd>>))
                                 @@ (<<SkillMd>> :> FileNode(ts)))>>),
                   Dir(<<FileEntry(<<"k", ".md">>, tc)>>),
                   [exists |-> FALSE, text |-> <<>>]) :
                ta \in DescTexts, ts \in DescTexts, tc \in DescTexts}
  /\ artifact = NoArtifact
  /\ catalog = <<>>
  /\ pending = EmptyBag
  /\ resp = NoResponse
  /\ build = NoBuild
  /\ hist = NoHist
  /\ nSaves = 0
  /\ nBuilds = 0
  /\ client = NoClient

NextDescribe == GenerateData({"ok"})

SpecDescribe == InitDescribe /\ [][NextDescribe]_vars

\* the {path} values PUT requests carry when the target is at stake: none, the
\* path all MCP items share, a path of no catalog entry, a path that leaves
\* the project root
SavePaths ==
  { <<>>,
    <<".mcp.json">>,
    <<"agents", "/", "n", ".md">>,
    <<"..", "/", "x", ".md">> }

\* the request bodies: none, the content of an MCP item as the client loaded
\* it, or an edited text
SaveBodies(componentsData) ==
  {NoBody, ContentBody(NewText1)}
    \cup {ContentBody(componentsData[i].content) :
            i \in {j \in 1..Len(componentsData) : componentsData[j].type = "mcp"}}

\* the server running on the catalog of a tree with one agent and an MCP config
InitSave ==
  /\ fs \in {Tree(Dir(<<AgentAB>>), NoDir, NoDir, m) : m \in McpGoodVariants}
  /\ artifact = Generated(fs, NoArtifact).artifact
  /\ catalog = artifact.items
  /\ pending = EmptyBag
  /\ resp = NoResponse
  /\ build = Generated(fs, NoArtifact).build
  /\ hist = NoHist
  /\ nSaves = 0
  /\ nBuilds = 0
  /\ client = NoClient

NextSave ==
  \/ \E path \in SavePaths : \E body \in SaveBodies(catalog) :
       SaveItemContentBegin(path, body)
  \/ \E req \in BagToSet(pending) : SaveItemContentWrite(req)

SpecSave == InitSave /\ [][NextSave]_vars

\* the {path} values of the saves that a run of the data generation follows
RebuildPaths == { <<".mcp.json">>, <<"agents", "/", "n", ".md">> }

\* saves of MCP item contents and edited texts, and the data-generation
\* script run on the saved tree
NextRebuild ==
  \/ \E path \in RebuildPaths : \E body \in SaveBodies(catalog) \ {NoBody} :
       SaveItemContentBegin(path, body)
  \/ \E req \in BagToSet(pending) : SaveItemContentWrite(req)
  \/ GenerateData({"ok"})

SpecRebuild == InitSave /\ [][NextRebuild]_vars

AgentEmpty == FileEntry(<<"e", ".md">>, <<>>)

\* the texts entered in the textarea
TypedTexts == {NewText1}

\* the page on the catalog of a tree with an agent file and an empty one
InitClient ==
  /\ fs = Tree(Dir(<<AgentAB, AgentEmpty>>), NoDir, NoDir, [exists |-> FALSE, text |-> <<>>])
  /\ artifact = Generated(fs, NoArtifact).artifact
  /\ catalog = artifact.items
  /\ pending = EmptyBag
  /\ resp = NoResponse
  /\ build = Generated(fs, NoArtifact).build
  /\ hist = NoHist
  /\ nSaves = 0
  /\ nBuilds = 0
  /\ client = NoClient

NextClient ==
  \/ \E i \in 1..Len(Components) : SelectComponent(i)
  \/ \E path \in BagToSet(client.loads) : LoadSettles(path)
  \/ \E b \in BOOLEAN : SetEditing(b)
  \/ \E text \in TypedTexts : Type(text)
  \/ SaveComponent
  \/ \E s \in BagToSet(client.saves) : SaveSettles(s)
  \/ ClosePanel
  \/ DismissPanel

SpecClient == InitClient /\ [][NextClient]_vars

----------------------------------------------------------------------------
(* Properties *)

OfType(items, type) == SelectSeq(items, LAMBDA c : c.type = type)
NotOfType(items, type) == SelectSeq(items, LAMBDA c : c.type # type)
Count(log, label) == Cardinality({i \in 1..Len(log) : log[i] = label})

AgentABPath == <<"agents", "/", "a", "-", "b", ".md">>

\* C1: the list response has one entry per catalog entry, in catalog order;
\* each entry carries the catalog entry's id, name, type, description and path
\* and has no content field.
C1_ListStripsContent ==
  resp.op = "list" =>
    /\ resp.status = 200
    /\ Len(resp.list) = Len(catalog)
    /\ \A i \in 1..Len(catalog) :
         /\ DOMAIN resp.list[i] = {"id", "name", "type", "description", "path"}
         /\ "content" \notin DOMAIN resp.list[i]
         /\ resp.list[i].id = catalog[i].id
         /\ resp.list[i].name = catalog[i].name
         /\ resp.list[i].type = catalog[i].type
         /\ resp.list[i].description = catalog[i].description
         /\ resp.list[i].path = catalog[i].path

C1_Witness ==
  /\ resp.op = "list"
  /\ Len(resp.list) >= 3
  /\ \E i \in 1..Len(catalog) : catalog[i].content # <<>>

\* C2: a detail request answers 400 for the empty path, 200 with the path and
\* the stored content of an entry whose path is exactly the requested one, and
\* 404 for every other path.
C2_GetExactMatch ==
  resp.op = "get" =>
    LET path == resp.req.path
        same == {i \in 1..Len(catalog) : catalog[i].path = path}
    IN /\ path = <<>> => resp.status = 400
       /\ (path # <<>> /\ same # {}) =>
            /\ resp.status = 200
            /\ resp.path = path
            /\ \E i \in same : resp.content = catalog[i].content
       /\ (path # <<>> /\ same = {}) =>
            /\ resp.status = 404
            /\ resp.message = "Component not found"

\* a 404 for a path that differs from a catalog path only in case
C2_Witness ==
  /\ resp.op = "get"
  /\ resp.status = 404
  /\ resp.req.path = <<"agents", "/", "A", "-", "b", ".md">>
  /\ \E i \in 1..Len(catalog) : catalog[i].path = AgentABPath

\* C3: when the last completed request is a successful save, the file at its
\* path resolved against the parent of the server's working directory holds
\* exactly the content sent.
C3_SaveRoundTrip ==
  (resp.op = "put" /\ resp.status = 200) =>
    LET target == join(Parent(cwd), resp.req.path)
    IN /\ resp.success
       /\ resp.path = resp.req.path
       /\ target \in DOMAIN fs
       /\ fs[target].kind = "file"
       /\ fs[target].content = resp.req.body.content

\* the agent file, which held TextPurpose, holds the saved text instead
C3_Witness ==
  /\ resp.op = "put"
  /\ resp.status = 200
  /\ resp.req.path = AgentABPath
  /\ fs[<<Proj, Agents, <<"a", "-", "b", ".md">>>>].content = NewText1

BadSaveRequest(req) ==
  \/ req.path = <<>>
  \/ ~req.body.present
  \/ ~req.body.hasContent
  \/ req.body.content = <<>>

\* C4: a save answers 400 exactly when the path is empty or the body is
\* absent, has no content field or has empty content; the step that answers
\* 400 changes nothing but the response.
C4_SaveRejects ==
  /\ [](resp.op = "put" => (resp.status = 400 <=> BadSaveRequest(resp.req)))
  /\ [][(resp' # resp /\ resp'.op = "put" /\ resp'.status = 400)
          => UNCHANGED <<fs, artifact, catalog, pending>>]_vars

\* an empty content string is rejected after an earlier save went through
C4_Witness ==
  /\ resp.op = "put"
  /\ resp.status = 400
  /\ resp.req.path = AgentABPath
  /\ resp.req.body = ContentBody(<<>>)
  /\ hist.lastSave # NoSave

\* C5: the step in which a save's write settles answers 200 or 500; it answers
\* 500 'Failed to save file' whenever the target cannot be written, a 500
\* leaves the filesystem as it was, and success is answered only with the
\* content in the file.
C5_WriteFailure ==
  [][BagCardinality(pending') < BagCardinality(pending) =>
       LET target == join(Parent(cwd), resp'.req.path)
       IN /\ resp'.op = "put"
          /\ BagIn(resp'.req, pending)
          /\ resp'.status \in {200, 500}
          /\ ~writeFileOk(fs, target) => resp'.status = 500
          /\ resp'.status = 500 =>
               /\ resp'.message = "Failed to save file"
               /\ ~resp'.success
               /\ fs' = fs
          /\ resp'.success <=> resp'.status = 200
          /\ resp'.success =>
               /\ IsFile(fs', target)
               /\ fs'[target].content = resp'.req.body.content]_vars

\* a 500 for a path whose parent directory does not exist
C5_Witness ==
  /\ resp.op = "put"
  /\ resp.status = 500
  /\ resp.message = "Failed to save file"
  /\ ~IsDir(fs, Parent(join(Parent(cwd), resp.req.path)))

\* the catalog the server was started with
StartCatalog ==
  Generated(ServedTree, [dir |-> FALSE, file |-> FALSE, items |-> <<>>]).artifact.items

\* C6: no step of a save changes the loaded catalog or the artifact, so the
\* list and detail answers stay what they were; as long as no rebuild has run
\* the catalog is the one the server started with.
C6_Staleness ==
  /\ [](nBuilds = 0 => catalog = StartCatalog)
  /\ [][(pending' # pending \/ fs' # fs \/ (resp' # resp /\ resp'.op = "put"))
          => /\ catalog' = catalog
             /\ artifact' = artifact
             /\ listItems(catalog') = listItems(catalog)
             /\ \A p \in GetPaths \cup PutPaths :
                  getItemContent(catalog', p) = getItemContent(catalog, p)]_vars

\* the detail of a saved path still answers the old content
C6_Witness ==
  /\ nBuilds = 0
  /\ resp.op = "get"
  /\ resp.status = 200
  /\ resp.req.path = AgentABPath
  /\ fs[<<Proj, Agents, <<"a", "-", "b", ".md">>>>].content = NewText1
  /\ resp.content = TextPurpose

\* C7: once the last successful save, to the path of an agent, skill or
\* command item of the catalog, was followed by a completed build and a
\* reload, the detail of that path answers the saved text.
C7_SaveThenRebuild ==
  (hist.loaded /\ hist.lastSave.type \in {"agent", "skill", "command"}) =>
    /\ getItemContent(catalog, hist.lastSave.path).status = 200
    /\ getItemContent(catalog, hist.lastSave.path).content = hist.lastSave.content

\* the agent file was saved, the catalog rebuilt and reloaded, and the detail
\* request answers the saved text
C7_Witness ==
  /\ hist.loaded
  /\ hist.lastSave.type = "agent"
  /\ resp.op = "get"
  /\ resp.status = 200
  /\ resp.req.path = hist.lastSave.path
  /\ resp.content = NewText1

\* the tree f with the source of one kind replaced by a fault-free empty one
Heal(f, type) ==
  LET dir == CASE type = "agent" -> Agents [] type = "skill" -> Skills
               [] type = "command" -> Commands [] OTHER -> McpJson
      keep == {p \in DOMAIN f : ~(Len(p) >= 2 /\ p[1] = Proj /\ p[2] = dir)}
  IN (<<Proj, dir>> :> (IF type = "mcp" THEN FileNode(JsonText[JObj(<<>>)])
                        ELSE DirNode(<<>>)))
     @@ [p \in keep |-> f[p]]

Kinds == {"agent", "skill", "command", "mcp"}

\* the source of a kind is missing, unreadable or unparseable
Faulty(f, type) ==
  CASE type = "agent" -> ReadAgents(f).threw
    [] type = "skill" -> ReadSkills(f).threw
    [] type = "command" -> ReadCommands(f).threw
    [] OTHER -> ReadMcp(f).threw

\* C8: in the artifact of a completed run, the items of the other three kinds
\* are those a run would produce with the kind's source replaced by a
\* fault-free one, for each kind.
C8_FaultIsolation ==
  build.status = "done" =>
    \A type \in Kinds :
      NotOfType(artifact.items, type)
        = NotOfType(Generated(Heal(fs, type), artifact).artifact.items, type)

\* the agents directory is missing, the MCP config is not JSON, and the
\* skills and commands are in the artifact
C8_Witness ==
  /\ build.status = "done"
  /\ Faulty(fs, "agent")
  /\ Faulty(fs, "mcp")
  /\ OfType(artifact.items, "skill") # <<>>
  /\ OfType(artifact.items, "command") # <<>>

\* the names a scan of agents/ or commands/ considers: the .md entries
MdFiles(f, dir) ==
  IF IsDir(f, <<Proj, dir>>)
  THEN SelectSeq(f[<<Proj, dir>>].listing, LAMBDA n : endsWith(n, <<".md">>))
  ELSE <<>>

\* the positions of the .md entries that cannot be read
BadMd(f, dir) ==
  {i \in 1..Len(MdFiles(f, dir)) : ~IsFile(f, <<Proj, dir, MdFiles(f, dir)[i]>>)}

SkillDirs(f) ==
  IF IsDir(f, <<Proj, Skills>>) THEN f[<<Proj, Skills>>].listing ELSE <<>>

\* the positions of the skills entries without a readable SKILL.md
BadSkills(f) ==
  {i \in 1..Len(SkillDirs(f)) : ~IsFile(f, <<Proj, Skills, SkillDirs(f)[i], SkillMd>>)}

\* the entries of the mcpServers map of a parseable config
Servers(f) ==
  IF IsFile(f, <<Proj, McpJson>>) /\ parse(f[<<Proj, McpJson>>].content).ok
       /\ Truthy(Get(parse(f[<<Proj, McpJson>>].content).value, <<"mcpServers">>))
  THEN Get(parse(f[<<Proj, McpJson>>].content).value, <<"mcpServers">>).value.kv
  ELSE <<>>

\* the positions of the server entries whose config is null
BadServers(f) == {i \in 1..Len(Servers(f)) : Servers(f)[i].v.t = "null"}

\* C9 as stated: each kind has one entry per valid item and one log entry per
\* invalid item.
C9_Original ==
  build.status = "done" =>
    /\ IsDir(fs, <<Proj, Agents>>) =>
         /\ Len(OfType(artifact.items, "agent"))
              = Len(MdFiles(fs, Agents)) - Cardinality(BadMd(fs, Agents))
         /\ Count(build.log, "Error reading agents:") = Cardinality(BadMd(fs, Agents))
    /\ IsDir(fs, <<Proj, Skills>>) =>
         /\ Len(OfType(artifact.items, "skill"))
              = Len(SkillDirs(fs)) - Cardinality(BadSkills(fs))
         /\ Count(build.log, "Error reading skills:") = Cardinality(BadSkills(fs))
    /\ IsDir(fs, <<Proj, Commands>>) =>
         /\ Len(OfType(artifact.items, "command"))
              = Len(MdFiles(fs, Commands)) - Cardinality(BadMd(fs, Commands))
         /\ Count(build.log, "Error reading commands:") = Cardinality(BadMd(fs, Commands))
    /\ Servers(fs) # <<>> =>
         /\ Len(OfType(artifact.items, "mcp"))
              = Len(Servers(fs)) - Cardinality(BadServers(fs))
         /\ Count(build.log, "Error reading MCP config:") = Cardinality(BadServers(fs))

\* C10: a run whose output location is writable completes whatever the
\* sources are: the artifact is written, and the reported count is the number
\* of items in it.
C10_BuildCompletes ==
  (build.status # "none" /\ build.out = "ok") =>
    /\ build.status = "done"
    /\ artifact.dir
    /\ artifact.file
    /\ build.count = Len(artifact.items)

\* all four sources are bad: four log entries and an empty artifact
C10_Witness ==
  /\ build.status = "done"
  /\ \A type \in Kinds : Faulty(fs, type)
  /\ Len(build.log) = 4
  /\ build.count = 0
  /\ artifact.items = <<>>

\* the place of a kind in the catalog
Rank(type) ==
  CASE type = "agent" -> 1 [] type = "skill" -> 2 [] type = "command" -> 3 [] OTHER -> 4

\* the position, in its directory listing or in the mcpServers map, of the
\* source of item c; 0 if there is none
SourceIndex(f, c) ==
  LET names == CASE c.type = "agent" ->
                      IF IsDir(f, <<Proj, Agents>>)
                      THEN [i \in 1..Len(f[<<Proj, Agents>>].listing) |->
                              <<"agents", "/">> \o f[<<Proj, Agents>>].listing[i]]
                      ELSE <<>>
                 [] c.type = "skill" ->
                      [i \in 1..Len(SkillDirs(f)) |->
                         <<"skills", "/">> \o SkillDirs(f)[i] \o <<"/", "SKILL.md">>]
                 [] c.type = "command" ->
                      IF IsDir(f, <<Proj, Commands>>)
                      THEN [i \in 1..Len(f[<<Proj, Commands>>].listing) |->
                              <<"commands", "/">> \o f[<<Proj, Commands>>].listing[i]]
                      ELSE <<>>
                 [] OTHER -> [i \in 1..Len(Servers(f)) |-> Servers(f)[i].k]
      key == IF c.type = "mcp" THEN c.name ELSE c.path
      hits == {i \in 1..Len(names) : names[i] = key}
  IN IF hits = {} THEN 0 ELSE CHOOSE h \in hits : TRUE

\* C11: in the artifact of a completed run the agents come first, then the
\* skills, the commands and the MCP servers; two items of one kind are in the
\* order of their sources in the directory listing (in the mcpServers map).
C11_CatalogOrder ==
  build.status = "done" =>
    \A i \in 1..Len(artifact.items) : \A j \in 1..Len(artifact.items) :
      i < j =>
        /\ Rank(artifact.items[i].type) <= Rank(artifact.items[j].type)
        /\ SourceIndex(fs, artifact.items[i]) # 0
        /\ artifact.items[i].type = artifact.items[j].type =>
             SourceIndex(fs, artifact.items[i]) < SourceIndex(fs, artifact.items[j])

\* a catalog with two items of each kind
C11_Witness ==
  /\ build.status = "done"
  /\ nBuilds > 0
  /\ \A type \in Kinds : Len(OfType(artifact.items, type)) = 2

\* C12 as stated: the sources of a kind have distinct names (they are the
\* entries of one directory, the keys of one map), so no two items of the
\* artifact of a completed run have the same id.
C12_Original ==
  (build.status = "done" /\ nBuilds > 0) =>
    \A i \in 1..Len(artifact.items) : \A j \in 1..Len(artifact.items) :
      i # j => artifact.items[i].id # artifact.items[j].id

\* a file name that ends in ".md", without that extension
StripExtension(file) == SubSeq(file, 1, Len(file) - 1)

\* C13 as stated: every readable agent file named slug.md has an item with id
\* agent-slug, as name the slug with spaces for hyphens and its first letter
\* in upper case, type agent, path agents/slug.md and the file's text.
C13_Original ==
  (build.status = "done" /\ nBuilds > 0 /\ IsDir(fs, <<Proj, Agents>>)) =>
    \A k \in 1..Len(MdFiles(fs, Agents)) :
      LET file == MdFiles(fs, Agents)[k]
          slug == StripExtension(file)
      IN IsFile(fs, <<Proj, Agents, file>>) =>
           \E i \in 1..Len(artifact.items) :
             /\ artifact.items[i].path = <<"agents", "/">> \o file
             /\ artifact.items[i].id = <<"agent-">> \o slug
             /\ artifact.items[i].name = capitalize(replaceHyphens(slug))
             /\ artifact.items[i].type = "agent"
             /\ artifact.items[i].content = fs[<<Proj, Agents, file>>].content

\* the lines of a text
RECURSIVE SplitLines(_, _, _)
SplitLines(t, i, cur) ==
  IF i > Len(t) THEN <<cur>>
  ELSE IF t[i] = NL THEN <<cur>> \o SplitLines(t, i + 1, <<>>)
  ELSE SplitLines(t, i + 1, Append(cur, t[i]))

\* the remainder of the first line that carries the heading followed by text
\* on that line; the fallback when there is no such line
SameLineDescription(t, fallback) ==
  LET lines == SplitLines(t, 1, <<>>)
      hits == {k \in 1..Len(lines) : descMatch(lines[k]) # <<>>}
  IN IF hits = {} THEN fallback
     ELSE descMatch(lines[CHOOSE h \in hits : \A g \in hits : h <= g])

DefaultDescription(type) ==
  CASE type = "agent" -> <<"AI agent for specialized tasks">>
    [] type = "skill" -> <<"Pattern/skill for development">>
    [] OTHER -> <<"Scaffold command">>

\* C14 as stated: the description of an agent, skill or command item is the
\* remainder of the line of its text that carries the heading with text after
\* it, and the default of its type when no line does; text of a later line
\* is never the description.
C14_Original ==
  build.status = "done" =>
    \A i \in 1..Len(artifact.items) :
      artifact.items[i].type \in {"agent", "skill", "command"} =>
        artifact.items[i].description
          = SameLineDescription(artifact.items[i].content,
                                DefaultDescription(artifact.items[i].type))

\* C15 as stated: the MCP items of a completed run are, entry by entry, those
\* of the mcpServers map: id mcp-name, the name, type mcp, path .mcp.json, the
\* config pretty-printed with two spaces as content, and as description
\* 'HTTP: ' and the url for a config of type http, 'stdio server' otherwise.
C15_Original ==
  (build.status = "done" /\ nBuilds > 0 /\ Servers(fs) # <<>>) =>
    LET mcp == OfType(artifact.items, "mcp")
    IN /\ Len(mcp) = Len(Servers(fs))
       /\ \A k \in 1..Len(Servers(fs)) :
            LET name == Servers(fs)[k].k
                config == Servers(fs)[k].v
            IN /\ mcp[k].id = <<"mcp-">> \o name
               /\ mcp[k].name = name
               /\ mcp[k].path = <<".mcp.json">>
               /\ mcp[k].content = stringify(config, 0)
               /\ config = HttpCfg =>
                    /\ mcp[k].description = <<"HTTP: ", "https://x">>
                    /\ mcp[k].content
                         = <<"{", NL, SP, SP, "\"", "type", "\"", ":", SP, "\"", "http", "\"",
                             ",", NL, SP, SP, "\"", "url", "\"", ":", SP, "\"", "https://x",
                             "\"", NL, "}">>
               /\ config # HttpCfg => mcp[k].description = <<"stdio server">>

\* the paths of the skills entries that have a readable SKILL.md, in listing
\* order
RECURSIVE ValidSkillPaths(_, _)
ValidSkillPaths(f, i) ==
  IF i > Len(SkillDirs(f)) THEN <<>>
  ELSE (IF i \in BadSkills(f) THEN <<>>
        ELSE << <<"skills", "/">> \o SkillDirs(f)[i] \o <<"/", "SKILL.md">> >>)
       \o ValidSkillPaths(f, i + 1)

\* C16: when the skills directory can be listed, the skill items of a
\* completed run are those of the entries that have a readable SKILL.md, all
\* of them and in listing order, wherever the entries without one are listed;
\* nothing is logged for the skills.
C16_SkillSkipped ==
  (build.status = "done" /\ IsDir(fs, <<Proj, Skills>>)) =>
    /\ Len(OfType(artifact.items, "skill")) = Len(ValidSkillPaths(fs, 1))
    /\ \A i \in 1..Len(ValidSkillPaths(fs, 1)) :
         /\ OfType(artifact.items, "skill")[i].path = ValidSkillPaths(fs, 1)[i]
         /\ OfType(artifact.items, "skill")[i].content
              = fs[<<Proj, Skills, SkillDirs(fs)[SourceIndex(fs,
                     OfType(artifact.items, "skill")[i])], SkillMd>>].content
    /\ Count(build.log, "Error reading skills:") = 0

\* a subdirectory without SKILL.md listed before one that has it
C16_Witness ==
  /\ build.status = "done"
  /\ nBuilds > 0
  /\ 1 \in BadSkills(fs)
  /\ Len(SkillDirs(fs)) = 2
  /\ Len(OfType(artifact.items, "skill")) = 1
  /\ build.log = <<>>

\* item c is what the tree holds at its source: the file at its path, or the
\* server entry of its name
FromSource(f, c) ==
  /\ SourceIndex(f, c) # 0
  /\ c.type # "mcp" =>
       /\ IsFile(f, join(rootDir, c.path))
       /\ c.content = f[join(rootDir, c.path)].content
  /\ c.type = "mcp" => c.content = stringify(Servers(f)[SourceIndex(f, c)].v, 0)

\* C17: after a completed run the artifact's directory and file exist and the
\* artifact holds the items that run's scan found, each of them from a source
\* the tree holds, whatever the artifact held before.
C17_FullRebuild ==
  (build.status = "done" /\ nBuilds > 0) =>
    /\ artifact.dir
    /\ artifact.file
    /\ artifact.items = Scan(fs).items
    /\ \A i \in 1..Len(artifact.items) : FromSource(fs, artifact.items[i])

\* the artifact the server imported held an item whose source is not in the
\* tree; the rebuilt artifact holds the tree's items and not that one
C17_Witness ==
  /\ build.status = "done"
  /\ nBuilds > 0
  /\ \E i \in 1..Len(catalog) : catalog[i].path = <<"agents", "/", "o", ".md">>
  /\ artifact.items # <<>>
  /\ \A i \in 1..Len(artifact.items) :
       artifact.items[i].path # <<"agents", "/", "o", ".md">>

ItemSet(items) == {items[i] : i \in 1..Len(items)}

C19_McpSaveReplacesFile ==
  (resp.op = "put" /\ resp.status = 200 /\ resp.req.path = <<".mcp.json">>) =>
    /\ filePath(resp.req.path) = <<Proj, McpJson>>
    /\ IsFile(fs, <<Proj, McpJson>>)
    /\ fs[<<Proj, McpJson>>].content = resp.req.body.content
    /\ (\E i \in 1..Len(catalog) :
          /\ catalog[i].type = "mcp"
          /\ catalog[i].path = resp.req.path
          /\ catalog[i].content = resp.req.body.content)
         => /\ Servers(fs) = <<>>
            /\ ScanMcp(fs).items = <<>>

\* the config of server fs saved over a file that configured docs and fs
C19_Witness ==
  /\ resp.op = "put"
  /\ resp.status = 200
  /\ resp.req.path = <<".mcp.json">>
  /\ resp.req.body.content = stringify(StdioCfg, 0)
  /\ \E i, j \in 1..Len(catalog) :
       /\ catalog[i].type = "mcp" /\ catalog[i].name = <<"docs">>
       /\ catalog[j].type = "mcp" /\ catalog[j].name = <<"fs">>
  /\ fs[<<Proj, McpJson>>].content = stringify(StdioCfg, 0)
  /\ Servers(fs) = <<>>

\* the target is inside the project root
Contained(path) ==
  /\ Len(join(rootDir, path)) > Len(rootDir)
  /\ SubSeq(join(rootDir, path), 1, Len(rootDir)) = rootDir

\* C20: a save with a non-empty path and non-empty content is never answered
\* 400 or 404, whatever the path; it goes on to the write; and a write that
\* succeeds leaves the content at the path joined to the project root, inside
\* the root or not, in the catalog or not, and touches no other file.
C20_NoContainment ==
  /\ []((resp.op = "put" /\ ~BadSaveRequest(resp.req)) => resp.status \in {200, 500})
  /\ [][\A path \in SavePaths : \A body \in SaveBodies(catalog) :
          (~BadSaveRequest(Request(path, body)) /\ SaveItemContentBegin(path, body))
            => /\ BagIn(Request(path, body), pending')
               /\ resp' = resp]_vars
  /\ [][BagCardinality(pending') < BagCardinality(pending) =>
          LET target == join(rootDir, resp'.req.path)
          IN /\ writeFileOk(fs, target) \/ resp'.status = 500
             /\ resp'.status = 200 =>
                  /\ IsFile(fs', target)
                  /\ fs'[target].content = resp'.req.body.content
                  /\ \A p \in DOMAIN fs \ {target, Parent(target)} :
                       p \in DOMAIN fs' /\ fs'[p] = fs[p]]_vars

\* a file created beside the project directory by a path of no catalog entry
C20_Witness ==
  /\ resp.op = "put"
  /\ resp.status = 200
  /\ resp.req.path = <<"..", "/", "x", ".md">>
  /\ ~Contained(resp.req.path)
  /\ find(catalog, resp.req.path) = 0
  /\ IsFile(fs, <<<<"x", ".md">>>>)
  /\ fs[<<<<"x", ".md">>>>].content = resp.req.body.content

C27_Original ==
  (resp.op = "get" /\ resp.status = 200) =>
    \A i \in 1..Len(catalog) :
      catalog[i].path = resp.req.path => resp.content = catalog[i].content

\* the position, among the .md entries of a directory, of the first one that
\* cannot be read
FirstBadMd(f, dir) == CHOOSE k \in BadMd(f, dir) : \A j \in BadMd(f, dir) : k <= j

\* the paths of the items of the .md entries listed before position k
PathsBefore(f, dir, k) ==
  [i \in 1..(k - 1) |-> dir \o <<"/">> \o MdFiles(f, dir)[i]]

Paths(items) == [i \in 1..Len(items) |-> items[i].path]

\* C28: in the artifact of a completed run on a tree where reading an .md
\* file of the agents (commands) directory fails, the agent (command) items
\* are those of the files listed before the first such file, in order, one
\* 'Error reading agents:' ('Error reading commands:') entry is logged, and
\* the next kind was scanned: the skills (the MCP config) gave their items
\* or their own log entry.
C28_ReadFailureMidScan ==
  (build.status = "done" /\ nBuilds > 0) =>
    /\ BadMd(fs, Agents) # {} =>
         /\ Paths(OfType(artifact.items, "agent"))
              = PathsBefore(fs, Agents, FirstBadMd(fs, Agents))
         /\ Count(build.log, "Error reading agents:") = 1
         /\ IF IsDir(fs, <<Proj, Skills>>)
            THEN /\ Len(OfType(artifact.items, "skill"))
                      = Len(SkillDirs(fs)) - Cardinality(BadSkills(fs))
                 /\ Count(build.log, "Error reading skills:") = 0
            ELSE Count(build.log, "Error reading skills:") = 1
    /\ BadMd(fs, Commands) # {} =>
         /\ Paths(OfType(artifact.items, "command"))
              = PathsBefore(fs, Commands, FirstBadMd(fs, Commands))
         /\ Count(build.log, "Error reading commands:") = 1
         /\ IF IsFile(fs, <<Proj, McpJson>>) /\ parse(fs[<<Proj, McpJson>>].content).ok
                 /\ BadServers(fs) = {}
            THEN /\ Len(OfType(artifact.items, "mcp")) = Len(Servers(fs))
                 /\ Count(build.log, "Error reading MCP config:") = 0
            ELSE Count(build.log, "Error reading MCP config:") = 1

\* the second agent file is unreadable and the first one's item is kept; the
\* first command file is unreadable and the valid one after it gave no item;
\* the skills were scanned
C28_Witness ==
  /\ build.status = "done"
  /\ nBuilds > 0
  /\ Len(MdFiles(fs, Agents)) = 2
  /\ BadMd(fs, Agents) = {2}
  /\ Len(OfType(artifact.items, "agent")) = 1
  /\ Len(MdFiles(fs, Commands)) = 2
  /\ BadMd(fs, Commands) = {1}
  /\ OfType(artifact.items, "command") = <<>>
  /\ Len(OfType(artifact.items, "skill")) = 1
  /\ Count(build.log, "Error reading agents:") = 1
  /\ Count(build.log, "Error reading commands:") = 1

\* the last successful save put the content of one MCP item of the loaded
\* catalog into the MCP config file, which still holds it
McpItemSaved(h, f) ==
  /\ h.lastSave.path = <<".mcp.json">>
  /\ \E i \in 1..Len(catalog) :
       catalog[i].type = "mcp" /\ catalog[i].content = h.lastSave.content
  /\ IsFile(f, <<Proj, McpJson>>)
  /\ f[<<Proj, McpJson>>].content = h.lastSave.content

\* C29: the step that saves one MCP item's content to '.mcp.json' leaves the
\* agent, skill and command sources as they scan before it; a run of the
\* data generation that completes after such a save writes an artifact with
\* no MCP item and logs no MCP error, and its agent, skill and command items
\* are those of the sources.
C29_McpSaveThenBuild ==
  /\ [][(hist' # hist /\ nBuilds' = nBuilds /\ McpItemSaved(hist', fs'))
          => NotOfType(Scan(fs').items, "mcp") = NotOfType(Scan(fs).items, "mcp")]_vars
  /\ [][(nBuilds' = nBuilds + 1 /\ build'.status = "done" /\ McpItemSaved(hist, fs))
          => /\ OfType(artifact'.items, "mcp") = <<>>
             /\ Count(build'.log, "Error reading MCP config:") = 0
             /\ NotOfType(artifact'.items, "mcp")
                  = ScanAgents(fs).items \o ScanSkills(fs).items \o ScanCommands(fs).items]_vars

\* the catalog the server loaded has two MCP items and an agent; after the
\* save and the run the artifact holds the agent item alone
C29_Witness ==
  /\ hist.built
  /\ build.status = "done"
  /\ McpItemSaved(hist, fs)
  /\ Len(OfType(catalog, "mcp")) = 2
  /\ OfType(artifact.items, "mcp") = <<>>
  /\ artifact.items = NotOfType(catalog, "mcp")
  /\ artifact.items # <<>>
  /\ Count(build.log, "Error reading MCP config:") = 0

\* C30: every agent, skill and command item of a completed run has a
\* description of at least one character, and an item in whose content the
\* heading pattern has no match has the default description of its type.
C30_DescriptionNonEmpty ==
  (build.status = "done" /\ nBuilds > 0) =>
    \A i \in 1..Len(artifact.items) :
      artifact.items[i].type \in {"agent", "skill", "command"} =>
        /\ artifact.items[i].description # <<>>
        /\ descMatch(artifact.items[i].content) = <<>> =>
             artifact.items[i].description = DefaultDescription(artifact.items[i].type)

\* an empty agent file, a skill whose heading line ends after the colon and
\* a command without the heading
C30_Witness ==
  /\ build.status = "done"
  /\ nBuilds > 0
  /\ \E i, j, k \in 1..Len(artifact.items) :
       /\ artifact.items[i].type = "agent"
       /\ artifact.items[i].content = <<>>
       /\ artifact.items[i].description = <<"AI agent for specialized tasks">>
       /\ artifact.items[j].type = "skill"
       /\ artifact.items[j].content = TextHeadingOnly
       /\ artifact.items[j].description = <<":">>
       /\ artifact.items[k].type = "command"
       /\ artifact.items[k].content = TextPlain
       /\ artifact.items[k].description = <<"Scaffold command">>

\* C24 as stated: every skills subdirectory with a SKILL.md has an item named
\* by its directory name with hyphens as spaces and each word capitalised,
\* with id skill-<directory> and path skills/<directory>/SKILL.md; every
\* command file ending in .md has an item named '/' and the file name
\* without the extension, with id command-<that name> and path
\* commands/<file>.
C24_Original ==
  (build.status = "done" /\ nBuilds > 0) =>
    /\ \A d \in 1..Len(SkillDirs(fs)) :
         d \notin BadSkills(fs) =>
           \E i \in 1..Len(artifact.items) :
             /\ artifact.items[i].type = "skill"
             /\ artifact.items[i].name = capitalizeWords(replaceHyphens(SkillDirs(fs)[d]))
             /\ artifact.items[i].id = <<"skill-">> \o SkillDirs(fs)[d]
             /\ artifact.items[i].path
                  = <<"skills", "/">> \o SkillDirs(fs)[d] \o <<"/", "SKILL.md">>
    /\ \A c \in 1..Len(MdFiles(fs, Commands)) :
         \E i \in 1..Len(artifact.items) :
           /\ artifact.items[i].type = "command"
           /\ artifact.items[i].name = <<"/">> \o StripExtension(MdFiles(fs, Commands)[c])
           /\ artifact.items[i].id
                = <<"command-">> \o StripExtension(MdFiles(fs, Commands)[c])
           /\ artifact.items[i].path = <<"commands", "/">> \o MdFiles(fs, Commands)[c]

LoadSettled == BagCardinality(client'.loads) < BagCardinality(client.loads)
SaveSent == BagCardinality(client'.saves) > BagCardinality(client.saves)
SaveSettled == BagCardinality(client'.saves) < BagCardinality(client.saves)

\* C22 as stated: a selectComponent call leaves the panel loading; when the
\* response for the selected component's path arrives with success the
\* panel is no longer loading and holds the returned content; when a load
\* fails the panel holds 'Error loading content'.
C22_Original ==
  /\ [][client'.nSelects = client.nSelects + 1 => Loading(client')]_vars
  /\ [][(/\ LoadSettled
         /\ client'.lastLoad.status = 200
         /\ client.selectedComponent # 0
         /\ client'.lastLoad.path = Components[client.selectedComponent].path)
          => /\ ~Loading(client')
             /\ client'.componentContent
                  = getItemContent(catalog, client'.lastLoad.path).content]_vars
  /\ [][(LoadSettled /\ client'.lastLoad.status # 200)
          => client'.componentContent = ErrorLoading]_vars

C25_Original ==
  /\ ~Loading(client) =>
       /\ client.selectedComponent # 0
       /\ client.loadedFor = Components[client.selectedComponent].path
  /\ \A s \in BagToSet(client.saves) :
       s.loadedFor # <<>> => s.loadedFor = s.req.path

\* C26 as stated: a save sent from the Save button with the content 'Error
\* loading content' carries text that was typed.
C26_Original ==
  \A s \in BagToSet(client.saves) :
    (s.button /\ s.req.body.content = ErrorLoading) => s.typed

====
